---- MODULE Spec2Model ----
(***************************************************************************)
(* Model of modin/core/storage_formats/pandas/utils.py: the chunksize      *)
(* calculator (get_default_chunksize, compute_chunksize), the partition    *)
(* splitter (split_result_of_axis_func_pandas) and the dimension probes    *)
(* (length_fn_pandas, width_fn_pandas).                                    *)
(*                                                                         *)
(* A pandas object is a record: kind ("DataFrame" or "Series"), index (the *)
(* row labels), columns (the column labels; a Series has no such           *)
(* attribute, reading it raises AttributeError) and values (a sequence of  *)
(* rows, each a sequence of cells, for a DataFrame; a sequence of cells    *)
(* for a Series).  Every cell holds a value that identifies its original   *)
(* position, so two frames are equal only when they hold the same cells in *)
(* the same order.                                                         *)
(*                                                                         *)
(* A call's outcome is a record [status, value]: status "ok" with the      *)
(* returned value, or the name of the exception raised.                    *)
(***************************************************************************)
EXTENDS Integers, Sequences, FiniteSets

\* ---------------------------------------------------------------- bounds
MaxRows == 10
MaxCols == 2
MaxSplits == 5
MaxListLen == 3

\* Python's None, for the optional integer arguments (axis, default_block_size).
None == -1
\* Python's None, for the optional length_list argument.
NoneList == <<None>>

\* Values the hosting engine may give the MinPartitionSize configuration.
Floors == {1, 20}
\* Partition lengths a caller may put in a length list.
ListItems == {0, 1, 2}
\* Values a caller may pass as default_block_size.
Overrides == {None, 0, 3, 20}

VARIABLES
    MinPartitionSize,    \* modin.config.MinPartitionSize, the process-wide floor
    df,                  \* the caller's pandas object
    length_list,         \* the caller's list object (passed by reference)
    call,                \* the arguments of the last call
    ret,                 \* the outcome of the last call
    pc,                  \* position of the stepwise compute_chunksize call
    default_block_size,  \* local of the stepwise call (line 69)
    row_chunksize,       \* local of the stepwise call (line 73/76)
    col_chunksize        \* local of the stepwise call (line 80/83)

vars == <<MinPartitionSize, df, length_list, call, ret,
          pc, default_block_size, row_chunksize, col_chunksize>>

\* ---------------------------------------------------------------- values
Ok(v) == [status |-> "ok", value |-> v]
Raise(e) == [status |-> e, value |-> <<>>]
NoRet == [status |-> "none", value |-> <<>>]

Min2(a, b) == IF a < b THEN a ELSE b
Max2(a, b) == IF a > b THEN a ELSE b
\* Python's max(a, b, c)
max(a, b, c) == Max2(a, Max2(b, c))

\* The value of the cell that was created at row r, column c (0-based).
Cell(r, c) == r * 100 + c

DataFrame(nr, nc) ==
    [kind |-> "DataFrame",
     index |-> [i \in 1..nr |-> i - 1],
     columns |-> [j \in 1..nc |-> j - 1],
     values |-> [i \in 1..nr |-> [j \in 1..nc |-> Cell(i - 1, j - 1)]]]

Series(n) ==
    [kind |-> "Series",
     index |-> [i \in 1..n |-> i - 1],
     columns |-> <<>>,
     values |-> [i \in 1..n |-> Cell(i - 1, 0)]]

Frames == {DataFrame(nr, nc) : nr \in 0..MaxRows, nc \in 0..MaxCols}
             \cup {Series(n) : n \in 0..MaxRows}

\* Python's s[a:b] for 0 <= a, 0 <= b: positions a <= p < b that exist in s.
Slice(s, a, b) == SubSeq(s, Min2(a, Len(s)) + 1, Min2(b, Len(s)))

\* result.iloc[a:b]
iloc_rows(d, a, b) ==
    [d EXCEPT !.index = Slice(@, a, b), !.values = Slice(@, a, b)]

\* result.iloc[:, a:b]
iloc_cols(d, a, b) ==
    [d EXCEPT !.columns = Slice(@, a, b),
              !.values = [i \in 1..Len(d.values) |-> Slice(d.values[i], a, b)]]

\* np.cumsum(l): the running sums of l.
RECURSIVE cumsum(_)
cumsum(l) ==
    IF Len(l) = 0 THEN <<>>
    ELSE LET head == cumsum(SubSeq(l, 1, Len(l) - 1))
         IN Append(head, (IF Len(head) = 0 THEN 0 ELSE head[Len(head)]) + l[Len(l)])

\* ------------------------------------------------------ chunksize calculator
get_default_chunksize_floor(length, num_splits) ==
    IF num_splits = 0 THEN Raise("ZeroDivisionError")
    ELSE Ok(length \div num_splits)

get_default_chunksize_plus(length, num_splits) ==
    IF num_splits = 0 THEN Raise("ZeroDivisionError")
    ELSE Ok(length \div num_splits + 1)

get_default_chunksize(length, num_splits) ==
    IF num_splits = 0 THEN Raise("ZeroDivisionError")
    ELSE Ok(IF length % num_splits = 0
            THEN length \div num_splits
            ELSE length \div num_splits + 1)

\* Line 76 (and 83): max(1, chunksize, default_block_size)
floor_chunksize_nofloor(chunksize, block_size) == max(1, chunksize, 1)

floor_chunksize(chunksize, block_size) == max(1, chunksize, block_size)

\* Lines 69-71: the effective minimum block size.
resolve_block_size_noarg(arg) == MinPartitionSize

resolve_block_size(arg) == IF arg = None THEN MinPartitionSize ELSE arg

\* Lines 72-87, given the block size resolved at line 69.
chunksize_with(d, num_splits, block_size, axis) ==
    LET rowr == get_default_chunksize(Len(d.index), num_splits)
        colr == get_default_chunksize(Len(d.columns), num_splits)
    IN  IF (axis = 0 \/ axis = None) /\ rowr.status # "ok" THEN rowr
        ELSE IF axis = 0 THEN Ok(floor_chunksize(rowr.value, block_size))
        ELSE IF d.kind = "Series" THEN Raise("AttributeError")
        ELSE IF colr.status # "ok" THEN colr
        ELSE IF axis = 1 THEN Ok(floor_chunksize(colr.value, block_size))
        ELSE Ok(<<floor_chunksize(rowr.value, block_size),
                  floor_chunksize(colr.value, block_size)>>)

compute_chunksize(d, num_splits, block_size_arg, axis) ==
    chunksize_with(d, num_splits, resolve_block_size(block_size_arg), axis)

\* ------------------------------------------------------- partition splitter
\* Line 113: length_list.insert(0, 0); the list object after the insertion.
insert_zero_missing(l) == l

insert_zero(l) == <<0>> \o l

\* Line 120: the single-split shortcut.
is_single_split_never(num_splits) == FALSE

is_single_split(num_splits) == num_splits = 1

\* Lines 115, 124: the rows are sliced for axis 0 and for every Series.
slices_rows(axis, result) == axis = 0 \/ result.kind = "Series"

\* Lines 116/118 and 126/130: one partition, positions a <= p < b of the axis.
iloc_slice(axis, result, a, b) ==
    IF slices_rows(axis, result) THEN iloc_rows(result, a, b)
    ELSE iloc_cols(result, a, b)

\* The outcome of the call and the caller's list object after it.
split_result_of_axis_func_pandas(axis, num_splits, result, l) ==
    IF l # NoneList
    THEN LET inserted == insert_zero(l)
             sums == cumsum(inserted)
         IN  [ret |-> Ok([i \in 1..(Len(sums) - 1) |->
                             iloc_slice(axis, result, sums[i], sums[i + 1])]),
              length_list |-> inserted]
    ELSE IF is_single_split(num_splits)
    THEN [ret |-> Ok(<<result>>), length_list |-> l]
    ELSE LET chunksize == compute_chunksize(result, num_splits, None, axis)
         IN  IF chunksize.status # "ok"
             THEN [ret |-> chunksize, length_list |-> l]
             ELSE [ret |-> Ok([i \in 1..num_splits |->
                                 iloc_slice(axis, result,
                                            chunksize.value * (i - 1),
                                            chunksize.value * i)]),
                   length_list |-> l]

\* --------------------------------------------------------- dimension probes
length_fn_pandas_noassert(d) == Ok(IF Len(d.index) > 0 THEN Len(d.index) ELSE 0)

length_fn_pandas(d) ==
    IF d.kind # "DataFrame" THEN Raise("AssertionError")
    ELSE Ok(IF Len(d.index) > 0 THEN Len(d.index) ELSE 0)

width_fn_pandas(d) ==
    IF d.kind # "DataFrame" THEN Raise("AssertionError")
    ELSE Ok(IF Len(d.columns) > 0 THEN Len(d.columns) ELSE 0)

\* ------------------------------------------------------------------ inputs
NumSplits == 0..MaxSplits
Axes == {0, 1}

RECURSIVE SeqsUpTo(_, _)
SeqsUpTo(S, n) ==
    IF n = 0 THEN {<<>>}
    ELSE LET shorter == SeqsUpTo(S, n - 1)
         IN  shorter \cup {Append(l, x) : l \in {m \in shorter : Len(m) = n - 1}, x \in S}

\* The length lists a caller may build.
Lists == SeqsUpTo(ListItems, MaxListLen)

NoCall == [op |-> "none", axis |-> None, num_splits |-> 0, block_size |-> None,
           length |-> 0, length_list |-> NoneList]

LocalsInit ==
    /\ pc = "idle"
    /\ default_block_size = None
    /\ row_chunksize = None
    /\ col_chunksize = None

\* ------------------------------------------------------------------ actions
\* The hosting engine reconfigures the minimum partition size.
SetConfig ==
    /\ call.op = "none"
    /\ \E v \in Floors \ {MinPartitionSize} : MinPartitionSize' = v
    /\ UNCHANGED <<df, length_list, call, ret,
                   pc, default_block_size, row_chunksize, col_chunksize>>

\* The caller takes the outcome of its call; the calls are synchronous, so the
\* next call starts after this one has returned.
Return ==
    /\ call.op # "none"
    /\ pc = "idle"
    /\ call' = NoCall
    /\ ret' = NoRet
    /\ UNCHANGED <<MinPartitionSize, df, length_list,
                   pc, default_block_size, row_chunksize, col_chunksize>>

Call_get_default_chunksize ==
    /\ call.op = "none"
    /\ \E length \in 0..MaxRows, num_splits \in NumSplits :
          /\ call' = [NoCall EXCEPT !.op = "get_default_chunksize",
                                    !.length = length, !.num_splits = num_splits]
          /\ ret' = get_default_chunksize(length, num_splits)
    /\ UNCHANGED <<MinPartitionSize, df, length_list,
                   pc, default_block_size, row_chunksize, col_chunksize>>

Call_compute_chunksize ==
    /\ call.op = "none"
    /\ \E num_splits \in NumSplits, block_size \in Overrides, axis \in Axes \cup {None} :
          /\ call' = [NoCall EXCEPT !.op = "compute_chunksize", !.axis = axis,
                                    !.num_splits = num_splits, !.block_size = block_size]
          /\ ret' = compute_chunksize(df, num_splits, block_size, axis)
    /\ UNCHANGED <<MinPartitionSize, df, length_list,
                   pc, default_block_size, row_chunksize, col_chunksize>>

Call_length_fn_pandas ==
    /\ call.op = "none"
    /\ call' = [NoCall EXCEPT !.op = "length_fn_pandas"]
    /\ ret' = length_fn_pandas(df)
    /\ UNCHANGED <<MinPartitionSize, df, length_list,
                   pc, default_block_size, row_chunksize, col_chunksize>>

Call_width_fn_pandas ==
    /\ call.op = "none"
    /\ call' = [NoCall EXCEPT !.op = "width_fn_pandas"]
    /\ ret' = width_fn_pandas(df)
    /\ UNCHANGED <<MinPartitionSize, df, length_list,
                   pc, default_block_size, row_chunksize, col_chunksize>>

\* split_result_of_axis_func_pandas(axis, num_splits, df, length_list) with the
\* caller's list object, or with no list.
Call_split ==
    /\ call.op = "none"
    /\ \E axis \in Axes, num_splits \in NumSplits, l \in {NoneList, length_list} :
          /\ l # NoneList => Len(length_list) <= MaxListLen
          /\ LET out == split_result_of_axis_func_pandas(axis, num_splits, df, l)
             IN  /\ call' = [NoCall EXCEPT !.op = "split", !.axis = axis,
                                           !.num_splits = num_splits, !.length_list = l]
                 /\ ret' = out.ret
                 /\ length_list' = IF l = NoneList THEN length_list ELSE out.length_list
    /\ UNCHANGED <<MinPartitionSize, df, pc, default_block_size, row_chunksize, col_chunksize>>

\* ----------------------------------- compute_chunksize, statement by statement
\* The call is entered; nothing of its body has run yet.
cc_call ==
    /\ call.op = "none"
    /\ pc = "idle"
    /\ \E num_splits \in NumSplits, block_size \in Overrides, axis \in Axes \cup {None} :
          call' = [NoCall EXCEPT !.op = "compute_chunksize", !.axis = axis,
                                 !.num_splits = num_splits, !.block_size = block_size]
    /\ pc' = "l69"
    /\ UNCHANGED <<MinPartitionSize, df, length_list, ret,
                   default_block_size, row_chunksize, col_chunksize>>

\* Lines 69-71: the one read of the configuration.
cc_l69 ==
    /\ pc = "l69"
    /\ default_block_size' = resolve_block_size(call.block_size)
    /\ pc' = "l72"
    /\ UNCHANGED <<MinPartitionSize, df, length_list, call, ret,
                   row_chunksize, col_chunksize>>

\* Lines 72-78: the row chunksize.
cc_l72 ==
    /\ pc = "l72"
    /\ IF call.axis = 1
       THEN /\ pc' = "l80"
            /\ UNCHANGED <<ret, row_chunksize>>
       ELSE LET r == get_default_chunksize(Len(df.index), call.num_splits)
            IN  IF r.status # "ok"
                THEN /\ ret' = r
                     /\ pc' = "idle"
                     /\ UNCHANGED row_chunksize
                ELSE /\ row_chunksize' = floor_chunksize(r.value, default_block_size)
                     /\ IF call.axis = 0
                        THEN /\ ret' = Ok(row_chunksize')
                             /\ pc' = "idle"
                        ELSE /\ pc' = "l80"
                             /\ UNCHANGED ret
    /\ UNCHANGED <<MinPartitionSize, df, length_list, call,
                   default_block_size, col_chunksize>>

\* Lines 80-87 with block_size as the floor of the column chunksize.
cc_columns(block_size) ==
    /\ pc = "l80"
    /\ pc' = "idle"
    /\ IF df.kind = "Series"
       THEN /\ ret' = Raise("AttributeError")
            /\ UNCHANGED col_chunksize
       ELSE LET c == get_default_chunksize(Len(df.columns), call.num_splits)
            IN  IF c.status # "ok"
                THEN /\ ret' = c
                     /\ UNCHANGED col_chunksize
                ELSE /\ col_chunksize' = floor_chunksize(c.value, block_size)
                     /\ ret' = IF call.axis = 1 THEN Ok(col_chunksize')
                               ELSE Ok(<<row_chunksize, col_chunksize'>>)
    /\ UNCHANGED <<MinPartitionSize, df, length_list, call,
                   default_block_size, row_chunksize>>

cc_l80_reread == cc_columns(resolve_block_size(call.block_size))

\* Lines 80-87: the column chunksize, and the return.
cc_l80 == cc_columns(default_block_size)

\* The configuration changes while a call runs, or between calls.
SetConfigConcurrently ==
    /\ \E v \in Floors \ {MinPartitionSize} : MinPartitionSize' = v
    /\ UNCHANGED <<df, length_list, call, ret,
                   pc, default_block_size, row_chunksize, col_chunksize>>

\* The caller takes the outcome; the locals of the call are gone.
cc_return ==
    /\ call.op # "none"
    /\ pc = "idle"
    /\ call' = NoCall
    /\ ret' = NoRet
    /\ default_block_size' = None
    /\ row_chunksize' = None
    /\ col_chunksize' = None
    /\ UNCHANGED <<MinPartitionSize, df, length_list, pc>>

\* --------------------------------------------------------- specifications
\* The chunksize calculator and the dimension probes.
Init ==
    /\ MinPartitionSize \in Floors
    /\ df \in Frames
    /\ length_list = <<>>
    /\ call = NoCall
    /\ ret = NoRet
    /\ LocalsInit

Next ==
    \/ SetConfig
    \/ Call_get_default_chunksize
    \/ Call_compute_chunksize
    \/ Call_length_fn_pandas
    \/ Call_width_fn_pandas
    \/ Return

Spec == Init /\ [][Next]_vars

\* The partition splitter.
InitSplit ==
    /\ MinPartitionSize \in Floors
    /\ df \in Frames
    /\ length_list \in Lists
    /\ call = NoCall
    /\ ret = NoRet
    /\ LocalsInit

NextSplit ==
    \/ SetConfig
    \/ Call_split
    \/ Return

SpecSplit == InitSplit /\ [][NextSplit]_vars

\* compute_chunksize interleaved with reconfiguration by the hosting engine.
NextConc ==
    \/ SetConfigConcurrently
    \/ cc_call
    \/ cc_l69
    \/ cc_l72
    \/ cc_l80
    \/ cc_return

SpecConc == Init /\ [][NextConc]_vars

\* ------------------------------------------------- vocabulary of the claims
\* ceil(l / n), n >= 1
CeilDiv(l, n) == (l + n - 1) \div n

RECURSIVE SumSeq(_)
SumSeq(l) == IF Len(l) = 0 THEN 0 ELSE l[1] + SumSeq(Tail(l))

\* prefix[j] of the running sum of [0] + l (j = 0 .. Len(l))
Prefix(l, j) == SumSeq(SubSeq(l, 1, j))

RECURSIVE Flatten(_)
Flatten(ss) == IF Len(ss) = 0 THEN <<>> ELSE ss[1] \o Flatten(Tail(ss))

IsTable(d) == d.kind = "DataFrame"

\* The axis a split of d slices: the rows for axis 0 and for a Series.
TargetAxis(d, axis) == IF d.kind = "Series" THEN 0 ELSE axis

AxisLen(d, axis) == IF axis = 0 THEN Len(d.index) ELSE Len(d.columns)

\* The elements of d at positions a <= p < b of the axis, clipped to the axis.
AxisRange(d, axis, a, b) ==
    LET n == AxisLen(d, axis)
        lo == Min2(a, n)
        hi == Min2(b, n)
        count == IF hi > lo THEN hi - lo ELSE 0
    IN  IF axis = 0
        THEN [kind |-> d.kind,
              index |-> [k \in 1..count |-> d.index[lo + k]],
              columns |-> d.columns,
              values |-> [k \in 1..count |-> d.values[lo + k]]]
        ELSE [kind |-> d.kind,
              index |-> d.index,
              columns |-> [k \in 1..count |-> d.columns[lo + k]],
              values |-> [r \in 1..Len(d.index) |->
                            [k \in 1..count |-> d.values[r][lo + k]]]]

\* Concatenating parts in order along axis gives t: same elements, same order.
Reassembles(parts, t, axis) ==
    /\ \A i \in 1..Len(parts) : parts[i].kind = t.kind
    /\ IF axis = 0
       THEN /\ \A i \in 1..Len(parts) : parts[i].columns = t.columns
            /\ Flatten([i \in 1..Len(parts) |-> parts[i].index]) = t.index
            /\ Flatten([i \in 1..Len(parts) |-> parts[i].values]) = t.values
       ELSE /\ \A i \in 1..Len(parts) : parts[i].index = t.index
            /\ Flatten([i \in 1..Len(parts) |-> parts[i].columns]) = t.columns
            /\ \A r \in 1..Len(t.index) :
                  Flatten([i \in 1..Len(parts) |-> parts[i].values[r]]) = t.values[r]

IsUniformSplit == call.op = "split" /\ call.length_list = NoneList
IsListSplit == call.op = "split" /\ call.length_list # NoneList

\* ------------------------------------------------------------------ claims
\* C1: for every table, axis and split count N >= 1, concatenating the
\* partitions of the uniform split in order along the axis reproduces the
\* table; the same holds for the length-list path when the list sums to the
\* length of the split axis.
C1_RoundTrip ==
    (/\ call.op = "split"
     /\ IsTable(df)
     /\ \/ IsUniformSplit /\ call.num_splits >= 1
        \/ IsListSplit /\ SumSeq(call.length_list) = AxisLen(df, call.axis))
    => /\ ret.status = "ok"
       /\ Reassembles(ret.value, df, call.axis)

C1_Witness ==
    /\ IsListSplit
    /\ call.length_list = <<1, 0, 1>>
    /\ call.axis = 1
    /\ df = DataFrame(3, 2)
    /\ ret.status = "ok"
    /\ Len(ret.value) = 3
    /\ ret.value[3].columns = <<1>>

\* C2 (as stated): a split call leaves the table and the caller's length list
\* as they were before the call.
C2_NoSideEffects ==
    [][(call.op = "none" /\ call'.op = "split")
          => (df' = df /\ length_list' = length_list)]_vars

\* C3 (as stated): C = get_default_chunksize(L, N) satisfies C * N >= L and
\* C * (N - 1) < L for all L >= 0, N >= 1.
C3_CeilingLawAsStated ==
    (call.op = "get_default_chunksize" /\ call.num_splits >= 1)
    => /\ ret.status = "ok"
       /\ ret.value * call.num_splits >= call.length
       /\ ret.value * (call.num_splits - 1) < call.length

\* C3 (amended): C = get_default_chunksize(L, N) satisfies C * N >= L and
\* (C - 1) * N < L for all L >= 0, N >= 1: C is the smallest integer such that
\* N chunks of size C cover L.
C3_CeilingLaw ==
    (call.op = "get_default_chunksize" /\ call.num_splits >= 1)
    => /\ ret.status = "ok"
       /\ ret.value * call.num_splits >= call.length
       /\ (ret.value - 1) * call.num_splits < call.length
       /\ \A c \in 0..MaxRows : c * call.num_splits >= call.length => ret.value <= c

C3_Witness ==
    /\ call.op = "get_default_chunksize"
    /\ call.length = 10
    /\ call.num_splits = 3
    /\ ret = Ok(4)

\* C4: for a table and N >= 1, compute_chunksize gives max(1, ceil(len / N), F)
\* for the requested axis, F being the override when one is passed and the
\* current MinPartitionSize otherwise; the pair of both values for axis None.
C4_BalancedChunksize ==
    (call.op = "compute_chunksize" /\ IsTable(df) /\ call.num_splits >= 1)
    => LET F == IF call.block_size = None THEN MinPartitionSize ELSE call.block_size
           B(axis) == max(1, CeilDiv(AxisLen(df, axis), call.num_splits), F)
       IN  /\ ret.status = "ok"
           /\ IF call.axis = None
              THEN ret.value = <<B(0), B(1)>>
              ELSE /\ ret.value = B(call.axis)
                   /\ ret.value >= 1
                   /\ ret.value >= F

C4_Witness ==
    /\ call.op = "compute_chunksize"
    /\ df = DataFrame(10, 2)
    /\ call.num_splits = 5
    /\ call.block_size = 20
    /\ call.axis = 0
    /\ MinPartitionSize = 1
    /\ ret = Ok(20)

\* C5: with a length list of k items the split returns k partitions, the i-th
\* being the slice [prefix[i], prefix[i+1]) of the target axis, whatever the
\* split count is.
C5_LengthListPath ==
    IsListSplit
    => /\ ret.status = "ok"
       /\ Len(ret.value) = Len(call.length_list)
       /\ \A i \in 1..Len(call.length_list) :
             ret.value[i] = AxisRange(df, TargetAxis(df, call.axis),
                                      Prefix(call.length_list, i - 1),
                                      Prefix(call.length_list, i))

C5_Witness ==
    /\ IsListSplit
    /\ call.length_list = <<2, 2, 1>>
    /\ call.num_splits = 0
    /\ call.axis = 0
    /\ df = DataFrame(5, 2)
    /\ ret.status = "ok"
    /\ ret.value[1].index = <<0, 1>>
    /\ ret.value[2].index = <<2, 3>>
    /\ ret.value[3].index = <<4>>

\* C6: with no length list and N > 1 the split of a table returns N partitions,
\* the i-th being the slice [c*i, c*(i+1)) of the axis clipped to its length,
\* c = max(1, ceil(len / N), MinPartitionSize); no error is raised.  10 rows,
\* N = 3, floor 1: rows [0,4), [4,8), [8,10).
C6_UniformPath ==
    (IsUniformSplit /\ call.num_splits > 1 /\ IsTable(df))
    => LET c == max(1, CeilDiv(AxisLen(df, call.axis), call.num_splits),
                    MinPartitionSize)
       IN  /\ ret.status = "ok"
           /\ Len(ret.value) = call.num_splits
           /\ \A i \in 1..call.num_splits :
                 /\ ret.value[i] = AxisRange(df, call.axis, c * (i - 1), c * i)
                 /\ AxisLen(ret.value[i], call.axis) <= c
           /\ (Len(df.index) = 10 /\ call.axis = 0 /\ call.num_splits = 3
                 /\ MinPartitionSize = 1)
              => /\ ret.value[1].index = <<0, 1, 2, 3>>
                 /\ ret.value[2].index = <<4, 5, 6, 7>>
                 /\ ret.value[3].index = <<8, 9>>

\* 10 rows, N = 5, floor 20: all 10 rows, then 4 empty partitions.
C6_Witness ==
    /\ IsUniformSplit
    /\ call.num_splits = 5
    /\ call.axis = 0
    /\ MinPartitionSize = 20
    /\ df = DataFrame(10, 2)
    /\ ret.status = "ok"
    /\ ret.value[1] = df
    /\ \A i \in 2..5 : ret.value[i].index = <<>>

\* C7: with no length list and split count 1 the split returns the one-element
\* sequence holding its input, for a table and for a Series, for both axes and
\* every MinPartitionSize.
C7_SingleSplit ==
    (IsUniformSplit /\ call.num_splits = 1) => ret = Ok(<<df>>)

C7_Witness ==
    /\ IsUniformSplit
    /\ call.num_splits = 1
    /\ call.axis = 1
    /\ df = Series(4)
    /\ MinPartitionSize = 20
    /\ ret = Ok(<<df>>)

\* C8: for a table the probes return the number of rows and the number of
\* columns (0 for an empty dimension); for a Series each raises AssertionError
\* and returns nothing.
C8_DimensionProbes ==
    /\ call.op = "length_fn_pandas"
          => IF IsTable(df)
             THEN ret = Ok(Cardinality(DOMAIN df.index)) /\ ret.value >= 0
             ELSE ret = Raise("AssertionError")
    /\ call.op = "width_fn_pandas"
          => IF IsTable(df)
             THEN ret = Ok(Cardinality(DOMAIN df.columns)) /\ ret.value >= 0
             ELSE ret = Raise("AssertionError")

C8_Witness ==
    /\ call.op = "length_fn_pandas"
    /\ df = Series(3)
    /\ ret.status = "AssertionError"

\* C9 (as stated): a Series is split along its rows for either axis selector,
\* in the length-list path and in the uniform path with split count > 1, and
\* the partitions are returned without error.
C9_SeriesSplit ==
    (/\ call.op = "split"
     /\ df.kind = "Series"
     /\ IsListSplit \/ call.num_splits > 1)
    => /\ ret.status = "ok"
       /\ \A i \in 1..Len(ret.value) :
             \E a, b \in 0..Len(df.index) : ret.value[i] = AxisRange(df, 0, a, b)

\* C10: a compute_chunksize call that runs while MinPartitionSize is changed
\* uses one floor for everything it computes: for axis None the row and the
\* column chunksize are max(1, ceil(len / N), F) for one and the same F, the
\* override when one is passed and else a value of the configuration.
C10_SingleSnapshot ==
    (/\ call.op = "compute_chunksize"
     /\ pc = "idle"
     /\ ret.status = "ok"
     /\ call.axis = None)
    => \E F \in (IF call.block_size = None THEN Floors ELSE {call.block_size}) :
          /\ F = default_block_size
          /\ ret.value = <<max(1, CeilDiv(Len(df.index), call.num_splits), F),
                           max(1, CeilDiv(Len(df.columns), call.num_splits), F)>>

C10_Witness ==
    /\ call.op = "compute_chunksize"
    /\ pc = "idle"
    /\ call.axis = None
    /\ call.block_size = None
    /\ df = DataFrame(2, 2)
    /\ call.num_splits = 2
    /\ default_block_size = 1
    /\ MinPartitionSize = 20
    /\ ret = Ok(<<1, 1>>)

====
